---- MODULE Spec2Model ----
(***************************************************************************)
(* Model of b_plotter.py: the flux-density evaluator calc_B (shape         *)
(* dispatch, cylinder formula, envelope masking on the vectorized and the  *)
(* scalar path) and the module-level driver (linspace, meshgrid, the       *)
(* vectorized calc_B call, plot_surface).                                  *)
(*                                                                         *)
(* Floating point.  The program computes in IEEE-754 binary64.  The model  *)
(* keeps the IEEE semantics (a value is mant * 2^exp with a normalised     *)
(* mantissa, every operation is the exact result rounded to nearest, ties  *)
(* to even, NaN is unequal to everything) at a mantissa of Prec bits       *)
(* instead of 53, with an unbounded exponent (no overflow or underflow,    *)
(* which the millimetre-sized inputs of the program never reach).          *)
(* The one operation that is not correctly rounded is the scalar x ** 2:   *)
(* Python and numpy scalars compute it with C pow, which is within one ulp *)
(* of the exact square and is off the nearest float for some operands.     *)
(* Which operands is a property of the C library: the variable libm holds  *)
(* the set of those operands, chosen in Init and never changed.  On the     *)
(* operands the script itself squares pow is correctly rounded.  An        *)
(* ndarray ** 2 is np.square, the correctly rounded product.               *)
(***************************************************************************)
EXTENDS Integers, Sequences, FiniteSets, TLC

\* ------------------------------------------------------------------ bounds
\* mantissa width of the modelled floating point (binary64 has 53)
Prec == 13
\* longest 1-D array handed to calc_B by an importing caller
MaxLen == 2
\* tolerance of the comparisons "equal up to rounding", in units of
\* 2^-Prec * B_rem: two evaluations of the formula that differ only in the
\* rounding of their squares (one ulp each) differ by at most 24 units
\* (2 per square, 4 per sum and root, 6 per quotient, 16 per bracket,
\* 20 per half, 24 for the sum of the halves)
TolUlps == 24
\* number of linspace samples of the driver (the script uses 100)
GridN == 3

\* ---------------------------------------------------------- floating point
Abs(n) == IF n < 0 THEN -n ELSE n

Sgn(n) == IF n < 0 THEN -1 ELSE 1

RECURSIVE BitLen(_)
BitLen(n) == IF n = 0 THEN 0 ELSE 1 + BitLen(n \div 2)

NaN == [nan |-> TRUE, mant |-> 0, exp |-> 0]

Zero == [nan |-> FALSE, mant |-> 0, exp |-> 0]

Mk(m, e) == [nan |-> FALSE, mant |-> m, exp |-> e]

\* m * 2^e rounded to Prec significant bits, to nearest, ties to even;
\* the mantissa of a nonzero result has exactly Prec bits, so equal numbers
\* are equal records
Round(m, e) ==
    IF m = 0 THEN Zero
    ELSE LET a == Abs(m)
             n == BitLen(a)
         IN IF n <= Prec
            THEN Mk(Sgn(m) * a * 2^(Prec - n), e - (Prec - n))
            ELSE LET k  == n - Prec
                     q  == a \div 2^k
                     r  == a % 2^k
                     h  == 2^(k - 1)
                     q2 == IF r > h \/ (r = h /\ q % 2 = 1) THEN q + 1 ELSE q
                 IN IF q2 = 2^Prec
                    THEN Mk(Sgn(m) * 2^(Prec - 1), e + k + 1)
                    ELSE Mk(Sgn(m) * q2, e + k)

\* the correctly rounded quotient n / d of two integers, d > 0: how a decimal
\* literal (1.21 = 121/100) or an integer becomes a float
Ratio(n, d) ==
    IF n = 0 THEN Zero
    ELSE LET a  == Abs(n)
             want == Prec + 2 + BitLen(d) - BitLen(a)
             k  == IF want > 0 THEN want ELSE 0
             q  == (a * 2^k) \div d
             st == IF (a * 2^k) % d = 0 THEN 0 ELSE 1
         IN Round(Sgn(n) * (2 * q + st), 0 - k - 1)

FromInt(n) == Ratio(n, 1)

FNeg(x) == IF x.nan THEN NaN ELSE Mk(0 - x.mant, x.exp)

FAdd(x, y) ==
    IF x.nan \/ y.nan THEN NaN
    ELSE IF x.mant = 0 THEN y
    ELSE IF y.mant = 0 THEN x
    ELSE LET hi == IF x.exp >= y.exp THEN x ELSE y
             lo == IF x.exp >= y.exp THEN y ELSE x
             d  == hi.exp - lo.exp
         IN IF d > Prec + 1 THEN hi   \* lo is below a quarter ulp of hi
            ELSE Round(hi.mant * 2^d + lo.mant, lo.exp)

FSub(x, y) == FAdd(x, FNeg(y))

FMul(x, y) ==
    IF x.nan \/ y.nan THEN NaN
    ELSE Round(x.mant * y.mant, x.exp + y.exp)

\* The C library's pow: the set of operands x > 0 whose square pow(x, 2.0)
\* returns one ulp off the nearest float.  {} is a pow that always rounds
\* correctly.
VARIABLE libm

\* the exact square of x is no float
Inexact(x) ==
    /\ ~x.nan /\ x.mant # 0
    /\ LET p == x.mant * x.mant
       IN p % 2^(BitLen(p) - Prec) # 0

\* x ** 2 of a Python float or numpy scalar, C pow(x, 2.0), which squares
\* |x|: the exact square when it is a float; otherwise one of the two floats
\* around it, the nearest or, for the operands in libm, the other one
PowSq(x) ==
    IF x.nan THEN NaN
    ELSE IF x.mant = 0 THEN Zero
    ELSE LET p  == x.mant * x.mant
             k  == BitLen(p) - Prec
             q  == p \div 2^k
             lo == Round(q * 2^k, 2 * x.exp)
             hi == Round((q + 1) * 2^k, 2 * x.exp)
             c  == FMul(x, x)
         IN IF ~Inexact(x) \/ Mk(Abs(x.mant), x.exp) \notin libm THEN c
            ELSE IF c = lo THEN hi ELSE lo

\* numpy float division: 0/0 is nan (x/0 would be +-inf; with a radius above
\* zero no divisor of the model is zero)
FDiv(x, y) ==
    IF x.nan \/ y.nan \/ y.mant = 0 THEN NaN
    ELSE IF x.mant = 0 THEN Zero
    ELSE LET a  == Abs(x.mant) * 2^(Prec + 2)
             b  == Abs(y.mant)
             q  == a \div b
             st == IF a % b = 0 THEN 0 ELSE 1
         IN Round(Sgn(x.mant) * Sgn(y.mant) * (2 * q + st),
                  x.exp - y.exp - (Prec + 2) - 1)

RECURSIVE ISqrtIn(_, _, _)
ISqrtIn(n, lo, hi) ==
    IF hi - lo <= 1 THEN lo
    ELSE LET mid == (lo + hi) \div 2
         IN IF mid <= n \div mid THEN ISqrtIn(n, mid, hi) ELSE ISqrtIn(n, lo, mid)

\* floor of the square root of n, 0 <= n < 2^(2 * Prec + 4)
ISqrt(n) == ISqrtIn(n, 0, 2^(Prec + 2))

\* np.sqrt: correctly rounded; nan for a negative argument
FSqrt(x) ==
    IF x.nan \/ x.mant < 0 THEN NaN
    ELSE IF x.mant = 0 THEN Zero
    ELSE LET s  == IF (x.exp - (Prec + 2)) % 2 = 0 THEN Prec + 2 ELSE Prec + 3
             n  == x.mant * 2^s
             r  == ISqrt(n)
             st == IF r * r = n THEN 0 ELSE 1
         IN Round(2 * r + st, ((x.exp - s) \div 2) - 1)

\* x > y of two floats (False when either is nan)
FGt(x, y) == ~x.nan /\ ~y.nan /\ FSub(x, y).mant > 0

\* x == y of two floats (False when either is nan)
FEq(x, y) == ~x.nan /\ ~y.nan /\ x = y

\* ------------------------------------------------------- Python values
\* A value is a float, the int 0 of "return 0", an ndarray (a function from
\* its index set to floats: 1..n for one axis, (1..n) \X (1..m) for two) or
\* None; a comparison yields a bool or an ndarray of bools.
None == [kind |-> "None", v |-> Zero]

Float(x) == [kind |-> "float", v |-> x]

Int0 == [kind |-> "int", v |-> Zero]

NdArray(f) == [kind |-> "ndarray", v |-> f]

IsArr(a) == a.kind = "ndarray"

El(a, k) == IF IsArr(a) THEN a.v[k] ELSE a.v

\* the index set of the result of broadcasting a with b (a scalar broadcasts
\* to the array's shape; two arrays have the same shape here)
Shape(a, b) == IF IsArr(a) THEN DOMAIN a.v ELSE DOMAIN b.v

Op2(op, x, y) ==
    CASE op = "+" -> FAdd(x, y)
      [] op = "-" -> FSub(x, y)
      [] op = "*" -> FMul(x, y)
      [] op = "/" -> FDiv(x, y)

\* a op b, elementwise with broadcasting
Bin(op, a, b) ==
    IF IsArr(a) \/ IsArr(b)
    THEN NdArray([k \in Shape(a, b) |-> Op2(op, El(a, k), El(b, k))])
    ELSE Float(Op2(op, a.v, b.v))

\* a ** 2: np.square (the product) elementwise for an ndarray, C pow for a
\* scalar
Sq(a) ==
    IF IsArr(a) THEN NdArray([k \in DOMAIN a.v |-> FMul(a.v[k], a.v[k])])
    ELSE Float(PowSq(a.v))

\* np.sqrt(a)
Sqrt(a) ==
    IF IsArr(a) THEN NdArray([k \in DOMAIN a.v |-> FSqrt(a.v[k])])
    ELSE Float(FSqrt(a.v))

\* a > b, elementwise with broadcasting
Gt(a, b) ==
    IF IsArr(a) \/ IsArr(b)
    THEN [kind |-> "ndarray", v |-> [k \in Shape(a, b) |-> FGt(El(a, k), El(b, k))]]
    ELSE [kind |-> "bool", v |-> FGt(a.v, b.v)]

\* ---------------------------------------------------- module-level inputs
B_rem == Float(Ratio(121, 100))

mag_radius == Float(Ratio(762, 100))

mag_thick == Float(Ratio(2794, 1000))

dist_range == <<Float(FromInt(0)), Float(FromInt(25))>>

\* ------------------------------------------------------------------ calc_B
\* mm to m
ToMetres(x) == Bin("/", x, Float(FromInt(1000)))

\* the bracket with the square roots left out of the denominators
Bracket_nosqrt(u, mag_radius_m, mag_thick_m) ==
    Bin("-",
        Bin("/", Bin("+", mag_thick_m, u),
                 Bin("+", Sq(mag_radius_m), Sq(Bin("+", mag_thick_m, u)))),
        Bin("/", u, Bin("+", Sq(mag_radius_m), Sq(u))))

\* one magnet's bracket: (t + u) / sqrt(r^2 + (t + u)^2) - u / sqrt(r^2 + u^2)
Bracket(u, mag_radius_m, mag_thick_m) ==
    Bin("-",
        Bin("/", Bin("+", mag_thick_m, u),
                 Sqrt(Bin("+", Sq(mag_radius_m), Sq(Bin("+", mag_thick_m, u))))),
        Bin("/", u, Sqrt(Bin("+", Sq(mag_radius_m), Sq(u)))))

\* the formula with both brackets weighted B_rem instead of B_rem / 2
CylFormula_nohalf(dist_m, pos_m, Brem, mag_radius_m, mag_thick_m) ==
    Bin("+",
        Bin("*", Brem, Bracket(Bin("+", dist_m, pos_m), mag_radius_m, mag_thick_m)),
        Bin("*", Brem, Bracket(Bin("-", dist_m, pos_m), mag_radius_m, mag_thick_m)))

\* the cylinder formula: (B_rem / 2) * bracket(dist_m + pos_m)
\*                     + (B_rem / 2) * bracket(dist_m - pos_m)
CylFormula(dist_m, pos_m, Brem, mag_radius_m, mag_thick_m) ==
    Bin("+",
        Bin("*", Bin("/", Brem, Float(FromInt(2))),
                 Bracket(Bin("+", dist_m, pos_m), mag_radius_m, mag_thick_m)),
        Bin("*", Bin("/", Brem, Float(FromInt(2))),
                 Bracket(Bin("-", dist_m, pos_m), mag_radius_m, mag_thick_m)))

\* the activation record of a calc_B call: its parameters (dist and pos are
\* references to the caller's objects; args keeps what the caller passed),
\* its locals, its position, its return value and the exception it caught
\* or raised
NoFrame ==
    [pc |-> "none", caller |-> "none", args |-> <<>>,
     dist |-> None, pos |-> None, B_rem |-> None, mag_radius |-> None,
     mag_thick |-> None, mag_shape |-> "",
     B |-> None, ret |-> None, caught |-> "none", raised |-> "none"]

Enter(caller, d, p, Brem, r, t, shape) ==
    [NoFrame EXCEPT !.pc = "body", !.caller = caller,
                    !.args = <<d, p, Brem, r, t, shape>>,
                    !.dist = d, !.pos = p, !.B_rem = Brem, !.mag_radius = r,
                    !.mag_thick = t, !.mag_shape = shape]

\* an unsupported shape with the stub's nan carried on into the masking step
Body_falls_through(f) ==
    [f EXCEPT !.B = IF f.mag_shape = "cyl"
                    THEN CylFormula(ToMetres(f.dist), ToMetres(f.pos), f.B_rem,
                                    ToMetres(f.mag_radius), ToMetres(f.mag_thick))
                    ELSE IF IsArr(f.dist) \/ IsArr(f.pos)
                    THEN NdArray([k \in Shape(f.dist, f.pos) |-> NaN])
                    ELSE Float(NaN),
              !.pc = "try"]

\* an unsupported shape answered with one nan per sample point
Body_nan_like(f) ==
    IF f.mag_shape = "cyl"
    THEN [f EXCEPT !.B = CylFormula(ToMetres(f.dist), ToMetres(f.pos), f.B_rem,
                                    ToMetres(f.mag_radius), ToMetres(f.mag_thick)),
                   !.pc = "try"]
    ELSE [f EXCEPT !.ret = IF IsArr(f.dist) \/ IsArr(f.pos)
                           THEN NdArray([k \in Shape(f.dist, f.pos) |-> NaN])
                           ELSE Float(NaN),
                   !.pc = "returned"]

\* unit conversion and shape dispatch: B for 'cyl', return np.nan otherwise
Body(f) ==
    IF f.mag_shape = "cyl"
    THEN [f EXCEPT !.B = CylFormula(ToMetres(f.dist), ToMetres(f.pos), f.B_rem,
                                    ToMetres(f.mag_radius), ToMetres(f.mag_thick)),
                   !.pc = "try"]
    ELSE [f EXCEPT !.ret = Float(NaN), !.pc = "returned"]

\* obj[mask] = val: a numpy scalar does not support item assignment
SetItem(obj, mask, val) ==
    IF ~IsArr(obj) THEN [exc |-> "TypeError", obj |-> obj]
    ELSE IF ~IsArr(mask) \/ DOMAIN mask.v # DOMAIN obj.v
    THEN [exc |-> "IndexError", obj |-> obj]
    ELSE [exc |-> "none",
          obj |-> NdArray([k \in DOMAIN obj.v |-> IF mask.v[k] THEN val ELSE obj.v[k]])]

\* the mask with the comparison turned round
Mask_lt(pos_, dist_) == Gt(dist_, pos_)

\* the mask of the item assignment: pos > dist, on the inputs in mm
Mask(pos_, dist_) == Gt(pos_, dist_)

\* the condition written pos >= dist
Cond_ge(pos_, dist_) == ~FGt(dist_.v, pos_.v)

\* the condition of the scalar fallback: pos > dist
Cond(pos_, dist_) == Gt(pos_, dist_).v

\* a handler for another exception
Handled_wrong == {"IndexError"}

\* the exceptions the handler catches
Handled == {"TypeError"}

\* the in-place assignment done on pos as well as on B
Try_writes_pos(f) ==
    LET a == SetItem(f.B, Mask(f.pos, f.dist), Zero)
    IN IF a.exc = "none"
       THEN [f EXCEPT !.B = a.obj, !.ret = a.obj, !.pc = "returned",
                      !.pos = IF IsArr(f.pos)
                              THEN SetItem(f.pos, Mask(f.pos, f.dist), Zero).obj
                              ELSE f.pos]
       ELSE IF a.exc \in Handled
       THEN [f EXCEPT !.caught = a.exc, !.pc = "returned",
                      !.ret = IF Cond(f.pos, f.dist) THEN Int0 ELSE f.B]
       ELSE [f EXCEPT !.raised = a.exc, !.pc = "raised"]

\* try: B[pos > dist] = 0; except TypeError: the scalar comparison; else: B
Try(f) ==
    LET a == SetItem(f.B, Mask(f.pos, f.dist), Zero)
    IN IF a.exc = "none"
       THEN [f EXCEPT !.B = a.obj, !.ret = a.obj, !.pc = "returned"]
       ELSE IF a.exc \in Handled
       THEN [f EXCEPT !.caught = a.exc, !.pc = "returned",
                      !.ret = IF Cond(f.pos, f.dist) THEN Int0 ELSE f.B]
       ELSE [f EXCEPT !.raised = a.exc, !.pc = "raised"]

\* the whole call, as a function of its arguments: the frame it ends in
calc_B(d, p, Brem, r, t, shape) ==
    LET f1 == Body(Enter("caller", d, p, Brem, r, t, shape))
    IN IF f1.pc = "try" THEN Try(f1) ELSE f1

\* ------------------------------------------------------------------ driver
\* np.linspace(start, stop, num): arange(num) * step + start, the last
\* sample set to stop
Linspace(start, stop, num) ==
    LET step == FDiv(FSub(stop.v, start.v), FromInt(num - 1))
    IN NdArray([k \in 1..num |->
                  IF k = num THEN stop.v
                  ELSE FAdd(FMul(FromInt(k - 1), step), start.v)])

\* meshgrid with matrix ('ij') indexing: the first axis follows the first
\* argument
Meshgrid_ij(x, y) ==
    LET idx == (1..Len(x.v)) \X (1..Len(y.v))
    IN <<NdArray([k \in idx |-> x.v[k[1]]]), NdArray([k \in idx |-> y.v[k[2]]])>>

\* np.meshgrid(x, y) with its default Cartesian ('xy') indexing: both results
\* have shape (len(y), len(x)); the first repeats x along the rows, the
\* second repeats y along the columns
Meshgrid(x, y) ==
    LET idx == (1..Len(y.v)) \X (1..Len(x.v))
    IN <<NdArray([k \in idx |-> x.v[k[2]]]), NdArray([k \in idx |-> y.v[k[1]]])>>

\* ------------------------------------------------- inputs of other callers
DistVals == {0, 10}

PosVals == {-10, 0, 20}

Geometries ==
    {<<Float(Ratio(121, 100)), Float(Ratio(762, 100)), Float(Ratio(2794, 1000))>>,
     <<Float(Ratio(132, 100)), Float(FromInt(12)), Float(FromInt(4))>>}

Shapes == {"cyl", "block", "ring", "sphere"}

Scalars(S) == {Float(FromInt(n)) : n \in S}

\* the 1-D array of the numbers a[1], a[2], ...
Arr(a) == NdArray([k \in DOMAIN a |-> FromInt(a[k])])

\* arrays of up to MaxLen increasing values of S
Arrays(S) ==
    UNION {{Arr(a) : a \in {b \in [1..n -> S] : \A k \in 1..(n - 1) : b[k] < b[k + 1]}} :
              n \in 1..MaxLen}

\* the sample points <<distance, position>> and their lexicographic order
Pts == DistVals \X PosVals

PtLess(a, b) == a[1] < b[1] \/ (a[1] = b[1] /\ a[2] < b[2])

\* sequences of n distinct sample points, in order
PointSeqs(n) ==
    {a \in [1..n -> Pts] : \A k \in 1..(n - 1) : PtLess(a[k], a[k + 1])}

\* scalar or array distance with scalar or array position, arrays of one
\* shape: a scalar pair, a scalar with an array, or the distances and
\* positions of up to MaxLen sample points
SamplePoints ==
    (Scalars(DistVals) \X Scalars(PosVals))
    \cup (Scalars(DistVals) \X Arrays(PosVals))
    \cup (Arrays(DistVals) \X Scalars(PosVals))
    \cup UNION {{<<Arr([k \in 1..n |-> a[k][1]]), Arr([k \in 1..n |-> a[k][2]])>> :
                   a \in PointSeqs(n)} : n \in 1..MaxLen}

\* the calls an importing module makes
Calls ==
    {<<s[1], s[2], g[1], g[2], g[3], shape>> :
        s \in SamplePoints, g \in Geometries, shape \in Shapes}

\* the operands calc_B(d, p, _, r, t, 'cyl') hands to pow: the radius in
\* every call, and in a call with scalar d and p the four arguments of the
\* roots as well (with an array among d and p those are squared by np.square)
PowArgs(d, p, r, t) ==
    LET up == Bin("+", ToMetres(d), ToMetres(p))
        um == Bin("-", ToMetres(d), ToMetres(p))
        tm == ToMetres(t)
        of == {ToMetres(r)} \cup
              (IF IsArr(d) \/ IsArr(p) THEN {}
               ELSE {up, um, Bin("+", tm, up), Bin("+", tm, um)})
    IN {Mk(Abs(x.v.mant), x.v.exp) : x \in {y \in of : Inexact(y.v)}}

\* the operands on which this C library's pow is known to be correctly
\* rounded: every operand the script squares (the radius, and the operands
\* of the scalar calls at the points of its grid), and those of
\* calc_B(10, 0, 1.21, 7.62, 2.794) and calc_B(20, 0, 1.21, 15.24, 5.588)
Nearest ==
    LET x   == Linspace(dist_range[1], dist_range[2], GridN).v
        two == Float(FromInt(2))
    IN UNION {PowArgs(Float(x[i]), Float(x[j]), mag_radius, mag_thick) :
                 i \in DOMAIN x, j \in DOMAIN x}
       \cup PowArgs(Float(FromInt(10)), Float(FromInt(0)), mag_radius, mag_thick)
       \cup PowArgs(Float(FromInt(20)), Float(FromInt(0)),
                    Bin("*", two, mag_radius), Bin("*", two, mag_thick))

\* the sets of operands whose squares meet in one value or one comparison of
\* values of calc_B(d, p, _, r, t, 'cyl'): those of the call and of the call
\* with distance, position, radius and thickness doubled, and for a call
\* with arrays those of the call and of the scalar call at one of its points
Compared(d, p, r, t) ==
    LET two == Float(FromInt(2))
    IN {PowArgs(d, p, r, t)
          \cup PowArgs(Bin("*", two, d), Bin("*", two, p),
                       Bin("*", two, r), Bin("*", two, t))}
       \cup (IF IsArr(d) \/ IsArr(p)
             THEN {PowArgs(d, p, r, t) \cup PowArgs(Float(El(d, k)), Float(El(p, k)), r, t) :
                      k \in Shape(d, p)}
             ELSE {})

\* the C libraries a behaviour with the call c can tell apart: pow is off on
\* any set of operands that meet in the call, none of them in Nearest
OffSets(c) ==
    IF c[6] = "cyl"
    THEN UNION {SUBSET (ops \ Nearest) : ops \in Compared(c[1], c[2], c[4], c[5])}
    ELSE {{}}

\* ------------------------------------------------------------------- state
\* libm, declared above, is the eighth variable
VARIABLES
    call,    \* the arguments of the call an importing module makes
    pc,      \* position of the module-level code
    dist,    \* module-level dist: None, the samples, then the distance grid
    pos,     \* module-level pos: None, then the position grid
    B,       \* module-level B: None, then the flux grid
    surf,    \* the three arrays handed to plot_surface
    frame    \* the activation record of calc_B

vars == <<pc, dist, pos, B, surf, frame, call, libm>>

\* the state before the script runs; the importing module's call and the C
\* library are fixed for the whole run, the library up to the operands the
\* run and the comparisons of its results can square
Init ==
    /\ pc = "linspace"
    /\ dist = None
    /\ pos = None
    /\ B = None
    /\ surf = <<>>
    /\ frame = NoFrame
    /\ \E c \in Calls :
          /\ call = c
          /\ libm \in OffSets(c)

\* dist = np.linspace(*dist_range, 100)
LinspaceStep ==
    /\ pc = "linspace"
    /\ dist' = Linspace(dist_range[1], dist_range[2], GridN)
    /\ pc' = "meshgrid"
    /\ UNCHANGED <<pos, B, surf, frame, call, libm>>

\* dist, pos = np.meshgrid(dist, dist)
MeshgridStep ==
    /\ pc = "meshgrid"
    /\ dist' = Meshgrid(dist, dist)[1]
    /\ pos' = Meshgrid(dist, dist)[2]
    /\ pc' = "call"
    /\ UNCHANGED <<B, surf, frame, call, libm>>

\* B = calc_B(dist, pos, B_rem, mag_radius, mag_thick): the call
DriverCall ==
    /\ pc = "call"
    /\ frame' = Enter("driver", dist, pos, B_rem, mag_radius, mag_thick, "cyl")
    /\ pc' = "in_call"
    /\ UNCHANGED <<dist, pos, B, surf, call, libm>>

\* a module that imported this one (the script has run) makes its call of
\* calc_B
ExternalCall ==
    /\ pc = "done"
    /\ frame.pc = "none"
    /\ frame' = Enter("caller", call[1], call[2], call[3], call[4], call[5], call[6])
    /\ UNCHANGED <<pc, dist, pos, B, surf, call, libm>>

\* calc_B, conversion and shape dispatch
CalcBody ==
    /\ frame.pc = "body"
    /\ frame' = Body(frame)
    /\ UNCHANGED <<pc, dist, pos, B, surf, call, libm>>

\* calc_B, the masking try statement
CalcTry ==
    /\ frame.pc = "try"
    /\ frame' = Try(frame)
    /\ UNCHANGED <<pc, dist, pos, B, surf, call, libm>>

\* the importing caller takes the result; the frame is gone
ExternalReturn ==
    /\ pc = "done"
    /\ frame.pc = "returned"
    /\ frame' = NoFrame
    /\ UNCHANGED <<pc, dist, pos, B, surf, call, libm>>

\* B = calc_B(...): the return; dist and pos are the objects the callee held
DriverReturn ==
    /\ pc = "in_call"
    /\ frame.pc = "returned"
    /\ B' = frame.ret
    /\ dist' = frame.dist
    /\ pos' = frame.pos
    /\ frame' = NoFrame
    /\ pc' = "plot"
    /\ UNCHANGED <<surf, call, libm>>

\* surf = ax.plot_surface(dist, pos, B, cmap=cm.RdBu); plt.show()
Plot ==
    /\ pc = "plot"
    /\ surf' = <<dist, pos, B>>
    /\ pc' = "done"
    /\ UNCHANGED <<dist, pos, B, frame, call, libm>>

Next ==
    \/ LinspaceStep
    \/ MeshgridStep
    \/ DriverCall
    \/ CalcBody
    \/ CalcTry
    \/ DriverReturn
    \/ Plot
    \/ ExternalCall
    \/ ExternalReturn

Spec == Init /\ [][Next]_vars

\* ------------------------------------------------------------------ claims
Returned == frame.pc = "returned"

IsCyl == frame.mag_shape = "cyl"

\* the arguments as the caller passed them
ArgDist == frame.args[1]

ArgPos == frame.args[2]

ArgsAreArrays == IsArr(ArgDist) /\ IsArr(ArgPos)

ArgsAreScalars == ~IsArr(ArgDist) /\ ~IsArr(ArgPos)

\* the sample points of the call: the indices of the broadcast inputs, one
\* point for a scalar call
Samples == IF ArgsAreScalars THEN {<<>>} ELSE Shape(ArgDist, ArgPos)

Masked(k) == FGt(El(ArgPos, k), El(ArgDist, k))

\* the raw formula value of the call's arguments
Raw ==
    CylFormula(ToMetres(ArgDist), ToMetres(ArgPos), frame.args[3],
               ToMetres(frame.args[4]), ToMetres(frame.args[5]))

\* the same call made with other distance and position arguments
Recall(d, p) ==
    calc_B(d, p, frame.args[3], frame.args[4], frame.args[5], frame.args[6])

Neg(a) ==
    IF IsArr(a) THEN NdArray([k \in DOMAIN a.v |-> FNeg(a.v[k])]) ELSE Float(FNeg(a.v))

Dbl(a) == Bin("*", Float(FromInt(2)), a)

\* two floats equal up to rounding: |a - b| <= TolUlps * 2^-Prec * |Brem|
Close(a, b, Brem) ==
    /\ ~a.nan /\ ~b.nan
    /\ LET d   == FSub(a, b)
           tol == FMul(Ratio(TolUlps, 2^Prec), Mk(Abs(Brem.mant), Brem.exp))
       IN ~FGt(Mk(Abs(d.mant), d.exp), tol)

\* the samples of the driver and the index set of its grids
X == Linspace(dist_range[1], dist_range[2], GridN)

Grid == (1..GridN) \X (1..GridN)

\* C1: for shape 'cyl', every sample point with pos > dist holds exactly 0 in
\* the result, whatever the raw formula gave there, on the scalar path and in
\* every element of the vectorized path.
C1_EnvelopeMasking ==
    (Returned /\ IsCyl) =>
        /\ IsArr(frame.ret) = ~ArgsAreScalars
        /\ \A k \in Samples : Masked(k) => El(frame.ret, k) = Zero

C1_Witness ==
    /\ Returned /\ IsCyl /\ IsArr(frame.ret)
    /\ LET raw == Raw
       IN \E k \in Samples : Masked(k) /\ El(raw, k) # Zero /\ El(frame.ret, k) = Zero
    /\ \E k \in Samples : ~Masked(k) /\ El(frame.ret, k) # Zero

\* C2: for shape 'cyl' and distances >= 0, the result of calc_B(d, p, ...)
\* equals the result of calc_B(d, -p, ...), masking included.
C2_Symmetry ==
    (Returned /\ IsCyl /\ \A k \in Samples : El(ArgDist, k).mant >= 0) =>
        LET s == Recall(ArgDist, Neg(ArgPos))
        IN \A k \in Samples : FEq(El(frame.ret, k), El(s.ret, k))

\* C3 as claimed: an unsupported shape yields, without an error, one NaN for
\* a scalar call and an array of NaN of the inputs' shape for an array call.
C3_NaNPerSample ==
    (Returned /\ ~IsCyl) =>
        /\ frame.raised = "none"
        /\ ArgsAreScalars => (~IsArr(frame.ret) /\ frame.ret.v.nan)
        /\ ~ArgsAreScalars =>
              /\ IsArr(frame.ret)
              /\ DOMAIN frame.ret.v = Samples
              /\ \A k \in Samples : frame.ret.v[k].nan

\* C3 amended: an unsupported shape ('block', 'ring' or any other value than
\* 'cyl') raises no error and returns the single scalar NaN, whatever the
\* shape of the inputs (scalar or array).
C3_ScalarNaN ==
    /\ ~IsCyl => frame.pc # "raised"
    /\ (Returned /\ ~IsCyl) =>
          /\ frame.ret = Float(NaN)
          /\ frame.raised = "none"

C3_Witness ==
    /\ Returned /\ frame.mag_shape = "block"
    /\ ArgsAreArrays /\ Cardinality(Samples) > 1
    /\ frame.ret = Float(NaN)

\* C4 as claimed: when the driver has built its three grids, their first
\* axis is distance and their second position: dist[i][j] = x[i],
\* pos[i][j] = x[j], B[i][j] = calc_B(x[i], x[j], ...).
C4_FirstAxisDistance ==
    pc = "plot" =>
        \A k \in Grid :
            /\ dist.v[k] = X.v[k[1]]
            /\ pos.v[k] = X.v[k[2]]
            /\ FEq(B.v[k], calc_B(Float(X.v[k[1]]), Float(X.v[k[2]]),
                                  B_rem, mag_radius, mag_thick, "cyl").ret.v)

\* C4 amended: when the driver has built its three grids, their first axis
\* is position and their second distance: dist[i][j] = x[j],
\* pos[i][j] = x[i], and B[i][j] equals exactly the scalar call
\* calc_B(x[j], x[i], ...) with distance x[j] and position x[i] (both are 0
\* where x[i] > x[j]; elsewhere they are the same float, pow being correctly
\* rounded on every operand of the script).  (Indices count from 1 here.)
C4_FirstAxisPosition ==
    pc = "plot" =>
        /\ DOMAIN dist.v = Grid /\ DOMAIN pos.v = Grid /\ DOMAIN B.v = Grid
        /\ \A k \in Grid :
            LET s == calc_B(Float(X.v[k[2]]), Float(X.v[k[1]]),
                            B_rem, mag_radius, mag_thick, "cyl").ret
            IN /\ dist.v[k] = X.v[k[2]]
               /\ pos.v[k] = X.v[k[1]]
               /\ FGt(X.v[k[1]], X.v[k[2]]) => (B.v[k] = Zero /\ s = Int0)
               /\ FEq(B.v[k], s.v)

C4_Witness ==
    /\ pc = "plot"
    /\ \E k \in Grid : k[1] # k[2] /\ B.v[k] = Zero /\ B.v[<<k[2], k[1]>>] # Zero

\* C5 as claimed: for shape 'cyl' and same-shaped arrays D and P, element k
\* of calc_B(D, P, ...) equals the scalar call calc_B(D[k], P[k], ...), which
\* takes the TypeError fallback, at masked and unmasked points alike.
C5_ScalarVectorEquivalent ==
    (Returned /\ IsCyl /\ ArgsAreArrays) =>
        LET raw == Raw
        IN \A k \in Samples :
              LET s == Recall(Float(ArgDist.v[k]), Float(ArgPos.v[k]))
              IN /\ s.pc = "returned"
                 /\ s.caught = "TypeError"
                 /\ FEq(frame.ret.v[k], s.ret.v)
                 /\ s.ret = IF Masked(k) THEN Int0 ELSE Float(raw.v[k])

\* C5 amended: for shape 'cyl' and same-shaped arrays D and P, element k of
\* calc_B(D, P, ...) and the scalar call calc_B(D[k], P[k], ...), which takes
\* the TypeError fallback, agree: at a masked point both are exactly 0, at an
\* unmasked point each is its path's raw formula value and the two are equal
\* up to rounding (within TolUlps * 2^-Prec * B_rem; the scalar path squares
\* with pow, the vectorized path with a product).
C5_ScalarVectorAgree ==
    (Returned /\ IsCyl /\ ArgsAreArrays) =>
        LET raw == Raw
        IN \A k \in Samples :
              LET s == Recall(Float(ArgDist.v[k]), Float(ArgPos.v[k]))
              IN /\ s.pc = "returned"
                 /\ s.caught = "TypeError"
                 /\ Masked(k) => (frame.ret.v[k] = Zero /\ s.ret = Int0)
                 /\ ~Masked(k) => (frame.ret.v[k] = raw.v[k] /\ s.ret = s.B)
                 /\ Close(frame.ret.v[k], s.ret.v, frame.args[3].v)

C5_Witness ==
    /\ Returned /\ IsCyl /\ ArgsAreArrays /\ frame.caught = "none"
    /\ LET raw == Raw
       IN /\ \E k \in Samples : Masked(k) /\ raw.v[k] # Zero
          /\ \E k \in Samples :
                /\ ~Masked(k) /\ frame.ret.v[k] = raw.v[k] /\ raw.v[k] # Zero
                /\ Recall(Float(ArgDist.v[k]), Float(ArgPos.v[k])).ret.v # raw.v[k]

\* the distance of every sample point: dist broadcast to the call's shape
SampleDist ==
    IF ArgsAreScalars \/ IsArr(ArgDist) THEN ArgDist
    ELSE NdArray([k \in Samples |-> ArgDist.v])

\* 2 * (Br/2) * [(t+d)/sqrt(r^2+(t+d)^2) - d/sqrt(r^2+d^2)], inputs in mm
\* converted to m, evaluated as Python evaluates the expression on d
MidpointValue(d, Brem, r, t) ==
    LET dm == ToMetres(d)
        rm == ToMetres(r)
        tm == ToMetres(t)
        td == Bin("+", tm, dm)
    IN Bin("*", Bin("*", Float(FromInt(2)), Bin("/", Brem, Float(FromInt(2)))),
            Bin("-", Bin("/", td, Sqrt(Bin("+", Sq(rm), Sq(td)))),
                     Bin("/", dm, Sqrt(Bin("+", Sq(rm), Sq(dm))))))

AtMidpoint(k) == El(ArgPos, k) = Zero /\ El(ArgDist, k).mant >= 0

\* C6: for shape 'cyl' and d >= 0, at p = 0 the two bracketed terms are
\* equal, the point is not masked and the result is
\* 2 * (Br/2) * [(t+d)/sqrt(r^2+(t+d)^2) - d/sqrt(r^2+d^2)] in SI units
\* (the expression evaluated on the call's distances, scalar or array).
C6_MidpointValue ==
    (Returned /\ IsCyl) =>
        LET mid == MidpointValue(SampleDist, frame.args[3], frame.args[4],
                                 frame.args[5])
        IN \A k \in Samples : AtMidpoint(k) =>
            /\ ~Masked(k)
            /\ LET dist_m == ToMetres(Float(El(ArgDist, k)))
                   pos_m  == ToMetres(Float(El(ArgPos, k)))
               IN Bracket(Bin("+", dist_m, pos_m),
                          ToMetres(frame.args[4]), ToMetres(frame.args[5]))
                  = Bracket(Bin("-", dist_m, pos_m),
                            ToMetres(frame.args[4]), ToMetres(frame.args[5]))
            /\ FEq(El(frame.ret, k), El(mid, k))

C6_Witness ==
    /\ Returned /\ IsCyl /\ ArgsAreScalars
    /\ ArgPos.v = Zero /\ ArgDist.v = FromInt(10)
    /\ frame.ret.kind = "float" /\ frame.ret.v.mant > 0

\* C7 as claimed: for shape 'cyl', doubling radius, thickness, distance and
\* position together, remanence fixed, leaves the result unchanged, masked
\* points included.
C7_ScaleInvariance ==
    (Returned /\ IsCyl) =>
        LET s == calc_B(Dbl(ArgDist), Dbl(ArgPos), frame.args[3],
                        Dbl(frame.args[4]), Dbl(frame.args[5]), "cyl")
        IN /\ s.pc = "returned"
           /\ IsArr(s.ret) = IsArr(frame.ret)
           /\ \A k \in Samples : FEq(El(frame.ret, k), El(s.ret, k))

\* C7 amended: for shape 'cyl', doubling radius, thickness, distance and
\* position together, remanence fixed, leaves the result unchanged up to
\* rounding: masked points stay masked and exactly 0, and every other value
\* changes by at most TolUlps * 2^-Prec * B_rem; calc_B(10, 0, 1.21, 7.62,
\* 2.794) and calc_B(20, 0, 1.21, 15.24, 5.588) are exactly equal.
C7_ScaleInvariantUpToRounding ==
    (Returned /\ IsCyl) =>
        LET s == calc_B(Dbl(ArgDist), Dbl(ArgPos), frame.args[3],
                        Dbl(frame.args[4]), Dbl(frame.args[5]), "cyl")
        IN /\ s.pc = "returned"
           /\ IsArr(s.ret) = IsArr(frame.ret)
           /\ \A k \in Samples :
                 /\ Masked(k) => (El(frame.ret, k) = Zero /\ El(s.ret, k) = Zero)
                 /\ Close(El(frame.ret, k), El(s.ret, k), frame.args[3].v)
           /\ frame.args = <<Float(FromInt(10)), Float(FromInt(0)), B_rem,
                             mag_radius, mag_thick, "cyl">>
                 => frame.ret = s.ret

C7_Witness ==
    /\ Returned
    /\ frame.args = <<Float(FromInt(10)), Float(FromInt(0)), B_rem, mag_radius,
                      mag_thick, "cyl">>
    /\ frame.ret.v.mant > 0
    /\ frame.ret = calc_B(Float(FromInt(20)), Float(FromInt(0)), Float(Ratio(121, 100)),
                          Float(Ratio(1524, 100)), Float(Ratio(5588, 1000)), "cyl").ret

\* C8: no error escapes calc_B: for scalar or array distance and position and
\* every shape the call ends by returning a float, 0 or NaN (or an array of
\* them); the TypeError of the item assignment on a scalar result is caught
\* and turned into the scalar comparison pos > dist.
C8_NoErrorEscapes ==
    /\ frame.pc \in {"none", "body", "try", "returned"}
    /\ frame.raised = "none"
    /\ Returned =>
          /\ frame.ret.kind \in {"float", "int", "ndarray"}
          /\ frame.caught \in {"none", "TypeError"}
          /\ (IsCyl /\ ArgsAreScalars) =>
                /\ frame.caught = "TypeError"
                /\ frame.ret = IF Masked(<<>>) THEN Int0 ELSE Raw
          /\ (IsCyl /\ ~ArgsAreScalars) => frame.caught = "none"

C8_Witness ==
    /\ Returned /\ IsCyl /\ ArgsAreScalars
    /\ frame.caught = "TypeError" /\ frame.raised = "none"
    /\ Masked(<<>>) /\ frame.ret = Int0 /\ Raw.v # Zero

\* C9: shape dispatch comes before masking: with a shape other than 'cyl' the
\* call returns NaN without reaching the masking step, so a sample point with
\* pos > dist gives NaN and not 0.
C9_DispatchBeforeMask ==
    ~IsCyl =>
        /\ frame.pc # "try"
        /\ Returned =>
              /\ frame.B = None
              /\ frame.caught = "none"
              /\ \A k \in Samples :
                    Masked(k) => (El(frame.ret, k).nan /\ El(frame.ret, k) # Zero)

C9_Witness ==
    /\ Returned /\ frame.mag_shape = "ring" /\ ArgsAreScalars
    /\ Masked(<<>>) /\ frame.ret.v.nan

\* C10: calc_B leaves its arguments unchanged on every path: distance,
\* position, remanence, radius and thickness hold after the call what the
\* caller passed, and the grids handed to plot_surface are the ones meshgrid
\* produced.
C10_ArgumentsUnchanged ==
    /\ frame.pc # "none" =>
          <<frame.dist, frame.pos, frame.B_rem, frame.mag_radius,
            frame.mag_thick, frame.mag_shape>> = frame.args
    /\ pc \in {"call", "in_call", "plot", "done"} => <<dist, pos>> = Meshgrid(X, X)
    /\ pc = "done" => surf = <<dist, pos, B>>

C10_Witness ==
    /\ pc = "done" /\ frame.pc = "returned" /\ IsCyl /\ ArgsAreArrays
    /\ \E k \in Samples : Masked(k) /\ frame.ret.v[k] = Zero /\ frame.pos.v[k] # Zero
    /\ \E k \in Grid : surf[3].v[k] = Zero /\ surf[2].v[k] # Zero
====
